---- MODULE Spec2Model ----
(***************************************************************************)
(* Model of the product search of Search_BH: app/functions.py (text        *)
(* normalisation, keyboard-layout conversion, synonym cache, variant       *)
(* generation, matching, boosts, aggregation) and app/api/router.py (the   *)
(* /search and /query handlers).                                           *)
(*                                                                         *)
(* A Python str is a sequence of Unicode code points (97 is "a", 32 is a   *)
(* space, 1078 is the Cyrillic letter zhe), so that strip(), the regular   *)
(* expressions and the translation tables are computed character by        *)
(* character as the code computes them.                                    *)
(***************************************************************************)
EXTENDS Integers, Sequences, FiniteSets, TLC

VARIABLES
  text,     \* the str normalize_query or convert_layout is called on
  fn,       \* which calls have been made on it so far
  out1,     \* f(text)
  out2,     \* f(f(text))
  source,           \* the synonyms file: whether it exists, its st_mtime, its content
  clock,            \* the st_mtime the next write of the file gets
  synonyms_cache,   \* the global _synonyms_cache
  synonyms_mtime,   \* the global _synonyms_mtime
  pc,               \* per thread: its position in _load_synonyms
  mtime,            \* per thread: the local mtime
  synonyms,         \* per thread: the local synonyms
  found,            \* per thread: what the call found the source to be
  entry,            \* per thread: the cache and the marker when the call began
  ret,              \* per thread: what the call returned or raised
  overlapped,       \* two calls have been in progress at the same time
  catalog,          \* the data frame get_dataframe() returns
  candidates,       \* the data frames handed to merge_and_sort_dataframes
  request,          \* the call at hand: the function or route and its arguments
  sort_ties,        \* what this build's sort_values does with equal Scores
  fuzz_ratio,       \* the RapidFuzz scores of the pairs (query, name) looked up
  variants,         \* the set search_dataframe iterates to run the fuzzy search
  phase,            \* "called", then "done" (and "again" after a second evaluation)
  returned,         \* what the call returned or raised
  returned2         \* what the second evaluation of the same call returned

textVars == <<text, fn, out1, out2>>
synVars == <<source, clock, synonyms_cache, synonyms_mtime, pc, mtime, synonyms,
             found, entry, ret, overlapped>>

searchVars == <<catalog, candidates, request, sort_ties, fuzz_ratio, variants, phase, returned, returned2>>

vars == <<textVars, synVars, searchVars>>

----------------------------------------------------------------------------
(* Bounds of the model.                                                    *)

MaxTextLen == 3
NThreads == 2
MaxWrites == 2

----------------------------------------------------------------------------
(* Characters and the str methods the code uses.                           *)

\* str.isspace() / the regex class \s on the ASCII range.
IsSpace(c) == c \in {9, 10, 11, 12, 13, 32}

\* "Ѐ" <= ch <= "ӿ"
IsCyrillic(c) == 1024 <= c /\ c <= 1279

\* "a" <= ch <= "z" or "A" <= ch <= "Z"
IsLatin(c) == (97 <= c /\ c <= 122) \/ (65 <= c /\ c <= 90)

\* a decimal digit: the regex class \d, and what int() accepts
IsDigitChar(c) == 48 <= c /\ c <= 57

\* a digit that is not a decimal digit: "\u00b2", the superscript two, for
\* which str.isdigit() is true and int() raises ValueError
IsSuperscriptDigit(c) == c = 178

\* the regex class \w of a str pattern: letters, digits and the underscore.
IsWordChar(c) ==
  IsLatin(c) \/ IsDigitChar(c) \/ IsSuperscriptDigit(c) \/ c = 95 \/ IsCyrillic(c)

RECURSIVE LStrip(_)
LStrip(s) ==
  IF s = <<>> THEN <<>>
  ELSE IF IsSpace(Head(s)) THEN LStrip(Tail(s)) ELSE s

RECURSIVE RStrip(_)
RStrip(s) ==
  IF s = <<>> THEN <<>>
  ELSE IF IsSpace(s[Len(s)]) THEN RStrip(SubSeq(s, 1, Len(s) - 1)) ELSE s

\* str.strip()
Strip(s) == RStrip(LStrip(s))

\* the class [^\w\s\.]
IsPunctuation(c) == ~IsWordChar(c) /\ ~IsSpace(c) /\ c # 46

\* Membership of a character in a named class.
InClass(class, c) ==
  IF class = "space" THEN IsSpace(c)
  ELSE IF class = "punctuation" THEN IsPunctuation(c)
  ELSE IF class = "cyrillic" THEN IsCyrillic(c)
  ELSE IF class = "latin" THEN IsLatin(c)
  ELSE FALSE

\* re.sub(r"[C]+", " ", s) for a character class C: every maximal run of
\* characters of the class becomes one space.
RECURSIVE ReSubRuns(_, _, _)
ReSubRuns(s, class, inRun) ==
  IF s = <<>> THEN <<>>
  ELSE IF InClass(class, Head(s))
       THEN (IF inRun THEN <<>> ELSE <<32>>) \o ReSubRuns(Tail(s), class, TRUE)
       ELSE <<Head(s)>> \o ReSubRuns(Tail(s), class, FALSE)

\* All strings over an alphabet up to a length.
RECURSIVE StringsUpTo(_, _)
StringsUpTo(alphabet, n) ==
  IF n = 0 THEN {<<>>}
  ELSE LET shorter == StringsUpTo(alphabet, n - 1)
       IN shorter \cup {Append(s, c) : s \in shorter, c \in alphabet}

----------------------------------------------------------------------------
(* normalize_query                                                         *)

normalize_query(raw_query) ==
  LET q == Strip(raw_query)
  IN IF q = <<>> THEN <<>>
     ELSE ReSubRuns(ReSubRuns(q, "punctuation", FALSE), "space", FALSE)

----------------------------------------------------------------------------
(* detect_language, convert_layout                                         *)

russian_layout ==
  << 1081, 1094, 1091, 1082, 1077, 1085, 1075, 1096, 1097, 1079, 1093, 1098, 1092, 1099, 1074, 1072,
     1087, 1088, 1086, 1083, 1076, 1078, 1101, 1103, 1095, 1089, 1084, 1080, 1090, 1100, 1073, 1102,
     1049, 1062, 1059, 1050, 1045, 1053, 1043, 1064, 1065, 1047, 1061, 1066, 1060, 1067, 1042, 1040,
     1055, 1056, 1054, 1051, 1044, 1046, 1069, 1071, 1063, 1057, 1052, 1048, 1058, 1068, 1041, 1070 >>

english_layout ==
  << 113, 119, 101, 114, 116, 121, 117, 105, 111, 112, 91, 93, 97, 115, 100, 102,
     103, 104, 106, 107, 108, 59, 39, 122, 120, 99, 118, 98, 110, 109, 44, 46,
     81, 87, 69, 82, 84, 89, 85, 73, 79, 80, 123, 125, 65, 83, 68, 70,
     71, 72, 74, 75, 76, 58, 34, 90, 88, 67, 86, 66, 78, 77, 60, 62 >>

Count(s, class) == Cardinality({i \in 1..Len(s) : InClass(class, s[i])})

detect_language(t) ==
  LET count_cyrillic == Count(t, "cyrillic")
      count_latin == Count(t, "latin")
  IN IF count_cyrillic >= count_latin THEN "ru" ELSE "en"

\* ch.translate(str.maketrans(from, to)): a character outside the table is kept.
TranslateChar(c, from, to) ==
  IF \E i \in 1..Len(from) : from[i] = c
  THEN to[CHOOSE i \in 1..Len(from) : from[i] = c]
  ELSE c

Translate(s, from, to) == [i \in 1..Len(s) |-> TranslateChar(s[i], from, to)]

convert_layout(t) ==
  IF t = <<>> THEN t
  ELSE IF detect_language(t) = "ru"
       THEN [i \in 1..Len(t) |->
               IF IsCyrillic(t[i])
               THEN TranslateChar(t[i], russian_layout, english_layout)
               ELSE t[i]]
       ELSE Translate(t, english_layout, russian_layout)

----------------------------------------------------------------------------
(* Dictionaries and the table _load_synonyms builds                        *)

\* str.lower() on the Latin and the basic Cyrillic capitals.
LowerChar(c) ==
  IF (65 <= c /\ c <= 90) \/ (1040 <= c /\ c <= 1071) THEN c + 32 ELSE c

Lower(s) == [i \in 1..Len(s) |-> LowerChar(s[i])]

\* A dict is a function from its keys; {} is the function of no key.
EmptyDict == <<>>

DictSet(d, k, v) == [x \in DOMAIN d \cup {k} |-> IF x = k THEN v ELSE d[x]]

\* [str(v).lower().strip() for v in value if str(v).strip()]
RECURSIVE CleanList(_)
CleanList(value) ==
  IF value = <<>> THEN <<>>
  ELSE (IF Strip(Head(value)) # <<>> THEN <<Strip(Lower(Head(value)))>> ELSE <<>>)
       \o CleanList(Tail(value))

\* The loop over raw.items(): items is the sequence of (key, value) pairs of
\* the JSON object; a value is a str, a list of str, or of another type (a
\* number, null, an object), which the loop skips.
RECURSIVE BuildSynonyms(_, _)
BuildSynonyms(items, acc) ==
  IF items = <<>> THEN acc
  ELSE LET key == Head(items).key
           value == Head(items).value
           key_l == Strip(Lower(key))
       IN IF key_l = <<>> THEN BuildSynonyms(Tail(items), acc)
          ELSE IF value.type = "str"
          THEN BuildSynonyms(Tail(items), DictSet(acc, key_l, <<Strip(Lower(value.s))>>))
          ELSE IF value.type = "list"
          THEN BuildSynonyms(Tail(items), DictSet(acc, key_l, CleanList(value.items)))
          ELSE BuildSynonyms(Tail(items), acc)

----------------------------------------------------------------------------
(* str and re operations of the search functions                           *)

UpperChar(c) ==
  IF (97 <= c /\ c <= 122) \/ (1072 <= c /\ c <= 1103) THEN c - 32 ELSE c

Upper(s) == [i \in 1..Len(s) |-> UpperChar(s[i])]

IsUpperChar(c) == (65 <= c /\ c <= 90) \/ (1040 <= c /\ c <= 1071)
IsLowerChar(c) == (97 <= c /\ c <= 122) \/ (1072 <= c /\ c <= 1103)

\* str.isupper(): a cased character, and no lowercase one
IsUpper(s) ==
  /\ \E i \in 1..Len(s) : IsUpperChar(s[i])
  /\ \A i \in 1..Len(s) : ~IsLowerChar(s[i])

\* str.islower()
IsLower(s) ==
  /\ \E i \in 1..Len(s) : IsLowerChar(s[i])
  /\ \A i \in 1..Len(s) : ~IsUpperChar(s[i])

\* str.capitalize()
Capitalize(s) ==
  IF s = <<>> THEN <<>> ELSE <<UpperChar(Head(s))>> \o Lower(Tail(s))

\* str.isdigit()
IsDigit(s) ==
  s # <<>> /\ \A i \in 1..Len(s) : IsDigitChar(s[i]) \/ IsSuperscriptDigit(s[i])

\* int(s) raises ValueError for a string that passed str.isdigit()
IntFails(s) == \E i \in 1..Len(s) : ~IsDigitChar(s[i])

\* str.split(sep) for a one-character sep: empty fields are kept.
RECURSIVE SplitOn(_, _, _)
SplitOn(s, sep, field) ==
  IF s = <<>> THEN <<field>>
  ELSE IF Head(s) = sep THEN <<field>> \o SplitOn(Tail(s), sep, <<>>)
  ELSE SplitOn(Tail(s), sep, Append(field, Head(s)))

\* str.split() and re.split(r"\s+", s) of a stripped s: the maximal runs of
\* characters that are not whitespace.
RECURSIVE SplitFields(_, _)
SplitFields(s, field) ==
  IF s = <<>> THEN (IF field = <<>> THEN <<>> ELSE <<field>>)
  ELSE IF IsSpace(Head(s))
       THEN (IF field = <<>> THEN <<>> ELSE <<field>>) \o SplitFields(Tail(s), <<>>)
       ELSE SplitFields(Tail(s), Append(field, Head(s)))

Split(s) == SplitFields(s, <<>>)

\* re.findall(r"\w+", s): the maximal runs of word characters.
RECURSIVE FindWordRuns(_, _)
FindWordRuns(s, run) ==
  IF s = <<>> THEN (IF run = <<>> THEN <<>> ELSE <<run>>)
  ELSE IF ~IsWordChar(Head(s))
       THEN (IF run = <<>> THEN <<>> ELSE <<run>>) \o FindWordRuns(Tail(s), <<>>)
       ELSE FindWordRuns(Tail(s), Append(run, Head(s)))

\* sep.join(parts)
RECURSIVE Join(_, _)
Join(parts, sep) ==
  IF parts = <<>> THEN <<>>
  ELSE IF Len(parts) = 1 THEN Head(parts)
  ELSE Head(parts) \o sep \o Join(Tail(parts), sep)

\* sub occurs in s at index i
OccursAt(s, sub, i) ==
  /\ i >= 1
  /\ i + Len(sub) - 1 <= Len(s)
  /\ SubSeq(s, i, i + Len(sub) - 1) = sub

\* sub in s
Contains(s, sub) == \E i \in 1..(Len(s) + 1) : OccursAt(s, sub, i)

\* Series.str.contains(sub, case=False) for a sub without regex operators
ContainsNoCase(s, sub) == Contains(Lower(s), Lower(sub))

\* the regex assertion \b after the first k characters of s
WordAt(s, i) == i >= 1 /\ i <= Len(s) /\ IsWordChar(s[i])
Boundary(s, k) == WordAt(s, k) # WordAt(s, k + 1)

\* re.search(r"\b" + re.escape(w) + r"\b", s)
ContainsWord(s, w) ==
  \E i \in 1..(Len(s) + 1) :
    /\ OccursAt(s, w, i)
    /\ Boundary(s, i - 1)
    /\ Boundary(s, i + Len(w) - 1)

\* re.search(r"(?<![\d.])\b" + q + r"\b(?![\d.])", s) for a q of digits
DigitOrDot(s, i) == i >= 1 /\ i <= Len(s) /\ (IsDigitChar(s[i]) \/ s[i] = 46)

ContainsNumber(s, q) ==
  \E i \in 1..(Len(s) + 1) :
    /\ OccursAt(s, q, i)
    /\ Boundary(s, i - 1)
    /\ Boundary(s, i + Len(q) - 1)
    /\ ~DigitOrDot(s, i - 1)
    /\ ~DigitOrDot(s, i + Len(q))

\* str(int(s)) for a string of ASCII digits: the leading zeros go, "0" stays.
RECURSIVE StripZeros(_)
StripZeros(s) ==
  IF Len(s) > 1 /\ Head(s) = 48 THEN StripZeros(Tail(s)) ELSE s

----------------------------------------------------------------------------
(* Transliteration                                                         *)

\* app/helpers.py is not part of the sources at hand; the two dictionaries
\* are samples of a phonetic table with one- and two-character keys:
\* {"k": "к", "h": "х", "kh": "х"} and {"к": "k", "х": "kh"}.
english_to_russian_transliteration_dict ==
  [key \in {<<107>>, <<104>>, <<107, 104>>} |->
     IF key = <<107>> THEN <<1082>> ELSE <<1093>>]

russian_to_english_transliteration_dict ==
  [key \in {<<1082>>, <<1093>>} |->
     IF key = <<1082>> THEN <<107>> ELSE <<107, 104>>]

\* max(map(len, transliteration_dict.keys())) if transliteration_dict else 0
MaxKeyLen(dict) ==
  IF DOMAIN dict = {} THEN 0
  ELSE CHOOSE n \in {Len(k) : k \in DOMAIN dict} :
         \A k \in DOMAIN dict : Len(k) <= n

Min(a, b) == IF a <= b THEN a ELSE b

\* for length in range(max_len_here, 0, -1): the longest chunk at i that is a
\* key, or 0 when none is.
RECURSIVE LongestChunk(_, _, _, _)
LongestChunk(t, i, dict, length) ==
  IF length = 0 THEN 0
  ELSE IF SubSeq(t, i, i + length - 1) \in DOMAIN dict THEN length
  ELSE LongestChunk(t, i, dict, length - 1)

RECURSIVE TransliterateFrom(_, _, _)
TransliterateFrom(t, i, dict) ==
  IF i > Len(t) THEN <<>>
  ELSE LET length == LongestChunk(t, i, dict, Min(Len(t) - i + 1, MaxKeyLen(dict)))
       IN IF length > 0
          THEN dict[SubSeq(t, i, i + length - 1)] \o TransliterateFrom(t, i + length, dict)
          ELSE <<t[i]>> \o TransliterateFrom(t, i + 1, dict)

custom_transliterate(t, dict) ==
  IF t = <<>> THEN t ELSE TransliterateFrom(t, 1, dict)

\* An Optional[str] is the set of at most one str: None is {}.
transliterate(optText) ==
  IF optText = {} \/ optText = {<<>>} THEN {}
  ELSE LET lowered == Lower(CHOOSE t \in optText : TRUE)
       IN IF detect_language(lowered) = "ru"
          THEN {custom_transliterate(lowered, russian_to_english_transliteration_dict)}
          ELSE {custom_transliterate(lowered, english_to_russian_transliteration_dict)}

----------------------------------------------------------------------------
(* Synonym substitution and the variants of a query                        *)

_match_token_case(token, replacement) ==
  IF IsUpper(token) THEN Upper(replacement)
  ELSE IF IsUpper(SubSeq(token, 1, 1)) /\ IsLower(Tail(token)) THEN Capitalize(replacement)
  ELSE replacement

\* t_low in synonyms and synonyms[t_low]
HasSynonyms(table, t_low) == t_low \in DOMAIN table /\ table[t_low] # <<>>

\* table is what _load_synonyms() returns.
replace_synonyms_in_query(query0, table) ==
  LET query == Strip(query0)
      tokens == Split(query)
      result_tokens ==
        [i \in 1..Len(tokens) |->
           IF HasSynonyms(table, Lower(tokens[i]))
           THEN _match_token_case(tokens[i], table[Lower(tokens[i])][1])
           ELSE tokens[i]]
  IN IF query = <<>> THEN <<>>
     ELSE IF DOMAIN table = {} THEN query
     ELSE Join(result_tokens, <<32>>)

\* new_tokens = list(tokens); new_tokens[i] = alt; " ".join(new_tokens)
AltQuery(tokens, i, alt) == Join([tokens EXCEPT ![i] = alt], <<32>>)

\* for alt in synonyms[t_low]: variants.add(alt_query); variants.add(alt)
AltVariants(tokens, i, table) ==
  IF HasSynonyms(table, Lower(tokens[i]))
  THEN UNION {{AltQuery(tokens, i, table[Lower(tokens[i])][j]), table[Lower(tokens[i])][j]} :
                j \in 1..Len(table[Lower(tokens[i])])}
  ELSE {}

\* variants after the loop over the tokens that have synonyms
BaseVariants(q_norm, tokens, table) ==
  {q_norm, tokens[1]} \cup UNION {AltVariants(tokens, i, table) : i \in 1..Len(tokens)}

\* extra_variants: the layout conversion and the transliteration of a variant
ExtraVariants(v) ==
  (IF convert_layout(v) # <<>> /\ convert_layout(v) # v THEN {convert_layout(v)} ELSE {})
  \cup {t \in transliterate({v}) : t # <<>> /\ t # v}

\* the set the text branch of search_dataframe hands to the matcher
Variants(q_norm, tokens, table) ==
  BaseVariants(q_norm, tokens, table)
  \cup UNION {ExtraVariants(v) : v \in BaseVariants(q_norm, tokens, table)}

----------------------------------------------------------------------------
(* Data frames: the set of column labels and the sequence of rows. A row   *)
(* is a record of the catalog fields and the Score; a frame whose columns  *)
(* lack "Score" ignores that field.                                        *)

CatalogColumns == {"id", "name", "code", "barcode", "producerid"}

\* pd.DataFrame(columns=cols)
EmptyFrame(cols) == [columns |-> cols, rows |-> <<>>]

\* pd.DataFrame(columns=list(dataframe.columns) + ["Score"])
EmptyScored(df) == EmptyFrame(df.columns \cup {"Score"})

\* the rows of a sequence that satisfy a mask
RECURSIVE SelectRows(_, _)
SelectRows(rows, mask) ==
  IF rows = <<>> THEN <<>>
  ELSE (IF mask[1] THEN <<Head(rows)>> ELSE <<>>)
       \o SelectRows(Tail(rows), [i \in 1..(Len(rows) - 1) |-> mask[i + 1]])

SetScore(rows, score) == [i \in 1..Len(rows) |-> [rows[i] EXCEPT !.Score = score]]

\* result.sort_values(by="Score", ascending=False): the rows by falling
\* Score; rows of equal Score come in the order of rank, a ranking of the
\* input positions, since the default quicksort is not a stable sort.
RECURSIVE SortPositions(_, _, _)
SortPositions(rows, rank, left) ==
  IF left = {} THEN <<>>
  ELSE LET first == CHOOSE p \in left : \A q \in left :
                      \/ rows[p].Score > rows[q].Score
                      \/ rows[p].Score = rows[q].Score /\ rank[p] <= rank[q]
       IN <<rows[first]>> \o SortPositions(rows, rank, left \ {first})

sort_values(rows, rank) == SortPositions(rows, rank, 1..Len(rows))

\* What the sort does with rows of equal Score: it keeps their input order,
\* reverses it, or orders them by a given ranking of the input positions.
Stable == [kind |-> "stable", rank |-> <<>>]
Reversed == [kind |-> "reversed", rank |-> <<>>]
Ranked(rank) == [kind |-> "ranked", rank |-> rank]

TieRank(ties, n) ==
  IF ties.kind = "stable" THEN [i \in 1..n |-> i]
  ELSE IF ties.kind = "reversed" THEN [i \in 1..n |-> n + 1 - i]
  ELSE ties.rank

\* result.drop_duplicates(subset="id"): the first row of each id is kept.
RECURSIVE DropDuplicates(_, _)
DropDuplicates(rows, seen) ==
  IF rows = <<>> THEN <<>>
  ELSE IF Head(rows).id \in seen THEN DropDuplicates(Tail(rows), seen)
  ELSE <<Head(rows)>> \o DropDuplicates(Tail(rows), seen \cup {Head(rows).id})

\* no row is dropped
drop_duplicates_keep_all(rows) == rows

drop_duplicates(rows) == DropDuplicates(rows, {})

RECURSIVE ConcatRows(_)
ConcatRows(frames) ==
  IF frames = <<>> THEN <<>> ELSE Head(frames).rows \o ConcatRows(Tail(frames))

RECURSIVE NonEmptyFrames(_)
NonEmptyFrames(dataframes) ==
  IF dataframes = <<>> THEN <<>>
  ELSE (IF Head(dataframes).rows # <<>> THEN <<Head(dataframes)>> ELSE <<>>)
       \o NonEmptyFrames(Tail(dataframes))

merge_and_sort_dataframes(dataframes) ==
  LET frames == NonEmptyFrames(dataframes)
  IN IF frames = <<>> THEN EmptyFrame({})
     ELSE [columns |-> UNION {frames[i].columns : i \in 1..Len(frames)},
           rows |-> ConcatRows(frames)]

\* the duplicates are dropped before the rows are sorted
sort_dataframes_first_kept(df, ties) ==
  IF df.rows = <<>> THEN EmptyFrame(df.columns)
  ELSE LET kept == IF "id" \in df.columns THEN drop_duplicates(df.rows) ELSE df.rows
       IN [columns |-> df.columns,
           rows |-> IF "Score" \in df.columns
                    THEN sort_values(kept, TieRank(ties, Len(kept)))
                    ELSE kept]

sort_dataframes(df, ties) ==
  IF df.rows = <<>> THEN EmptyFrame(df.columns)
  ELSE LET sorted == IF "Score" \in df.columns
                     THEN sort_values(df.rows, TieRank(ties, Len(df.rows)))
                     ELSE df.rows
       IN [columns |-> df.columns,
           rows |-> IF "id" \in df.columns THEN drop_duplicates(sorted) ELSE sorted]

----------------------------------------------------------------------------
(* Matching and boosts                                                     *)

WORD_MATCH_BOOST == 5
NUMBER_MATCH_BOOST == 20
PHRASE_MATCH_BOOST == 15
WORD_MISSING_PENALTY == 3
NUMBER_MISSING_PENALTY == 10

STOP_WORDS ==
  { <<1076, 1083, 1103>>, <<1080>>, <<1080, 1083, 1080>>, <<1089>>, <<1089, 1086>>,
    <<1073, 1077, 1079>>, <<1085, 1072>>, <<1074>>, <<1087, 1086>>, <<1086, 1090>>,
    <<1076, 1086>>, <<97>>, <<97, 110>>, <<116, 104, 101>>, <<102, 111, 114>>,
    <<119, 105, 116, 104>>, <<111, 102>>, <<97, 110, 100>>, <<111, 114>> }

\* threshold: int = 40, and max(threshold, 55) for a query of three tokens or more
FuzzyThreshold(tokens) == IF Len(tokens) >= 3 THEN 55 ELSE 40

\* search_with_fuzzy. optQuery is an Optional[str] (transliterate may return
\* None). ratio stands for RapidFuzz: ratio[<<q, name>>] is the score of
\* fuzz.token_set_ratio (token_sort_ratio for three tokens or more) for the
\* lowercased query and name. process.extract returns the matches at or above
\* the cutoff by falling score, equal scores in the order of the rows.
search_with_fuzzy(optQuery, dataframe, ratio) ==
  IF optQuery = {} THEN EmptyScored(dataframe)
  ELSE LET q == Lower(Strip(CHOOSE t \in optQuery : TRUE))
           score(i) == ratio[<<q, Lower(dataframe.rows[i].name)>>]
           scored == [i \in 1..Len(dataframe.rows) |->
                        [dataframe.rows[i] EXCEPT !.Score = score(i)]]
           mask == [i \in 1..Len(dataframe.rows) |-> score(i) >= FuzzyThreshold(Split(q))]
           matches == SelectRows(scored, mask)
       IN IF q = <<>> \/ "name" \notin dataframe.columns \/ matches = <<>>
          THEN EmptyScored(dataframe)
          ELSE [columns |-> dataframe.columns \cup {"Score"},
                rows |-> sort_values(matches, TieRank(Stable, Len(matches)))]

\* the pairs search_with_fuzzy looks up in ratio for a set of queries
FuzzyKeys(queries, dataframe) ==
  {<<Lower(Strip(v)), Lower(dataframe.rows[i].name)>> :
     v \in queries, i \in 1..Len(dataframe.rows)}

simple_search(search_query, dataframe) ==
  LET q == Strip(search_query)
      mask == [i \in 1..Len(dataframe.rows) |->
                 IF IsDigit(q)
                 THEN ContainsNumber(Lower(dataframe.rows[i].name), Lower(q))
                 ELSE ContainsWord(Lower(dataframe.rows[i].name), Lower(q))]
      result == SelectRows(dataframe.rows, mask)
  IN IF q = <<>> \/ "name" \notin dataframe.columns \/ result = <<>>
     THEN EmptyScored(dataframe)
     ELSE [columns |-> dataframe.columns \cup {"Score"}, rows |-> SetScore(result, 100)]

\* calc_bonus
calc_bonus(name, tokens) ==
  LET name_low == Lower(name)
      numbers == {tokens[i] : i \in {i \in 1..Len(tokens) : IsDigit(tokens[i])}}
      wordAt == {i \in 1..Len(tokens) : ~IsDigit(tokens[i]) /\ tokens[i] \notin STOP_WORDS}
      normalized_query == Join(tokens, <<32>>)
      word_hits == Cardinality({i \in wordAt : ContainsWord(name_low, tokens[i])})
      num_hits == Cardinality({n \in numbers : ContainsWord(name_low, n)})
      missing_words == Cardinality(wordAt) - word_hits
      missing_numbers == Cardinality(numbers) - num_hits
      penalty == (IF Cardinality(wordAt) >= 2 THEN missing_words * WORD_MISSING_PENALTY ELSE 0)
                 + missing_numbers * NUMBER_MISSING_PENALTY
      phrase_bonus == IF normalized_query # <<>> /\ Contains(name_low, normalized_query)
                      THEN PHRASE_MATCH_BOOST ELSE 0
  IN word_hits * WORD_MATCH_BOOST + num_hits * NUMBER_MATCH_BOOST + phrase_bonus - penalty

apply_token_boosts(df, raw_query) ==
  LET tokens == FindWordRuns(Lower(raw_query), <<>>)
  IN IF df.rows = <<>> \/ Strip(raw_query) = <<>> \/ "name" \notin df.columns \/ tokens = <<>>
     THEN df
     ELSE [columns |-> df.columns \cup {"Score"},
           rows |-> [i \in 1..Len(df.rows) |->
                       [df.rows[i] EXCEPT !.Score =
                          (IF "Score" \in df.columns THEN @ ELSE 0)
                          + calc_bonus(df.rows[i].name, tokens)]]]

----------------------------------------------------------------------------
(* search_dataframe                                                        *)

\* All orders in which the members of a set can be iterated.
RECURSIVE Orders(_)
Orders(S) ==
  IF S = {} THEN {<<>>}
  ELSE UNION {{<<x>> \o o : o \in Orders(S \ {x})} : x \in S}

\* q_norm of search_dataframe
QNorm(raw_query, table) == replace_synonyms_in_query(normalize_query(raw_query), table)

\* first_token.isdigit() is false: the text branch is taken
IsTextQuery(raw_query, table) ==
  /\ Split(QNorm(raw_query, table)) # <<>>
  /\ ~IsDigit(Split(QNorm(raw_query, table))[1])

\* the variants of the text branch ({} when the branch is not taken)
VariantsOf(raw_query, table) ==
  IF IsTextQuery(raw_query, table)
  THEN Variants(QNorm(raw_query, table), Split(QNorm(raw_query, table)), table)
  ELSE {}

\* the text branch; order is the order in which `for v in variants` yields
TextBranch(df, q_norm, tokens, order, ratio, ties) ==
  LET zero_df == simple_search(tokens[1], df)
      fuzzy_frames == [k \in 1..Len(order) |-> search_with_fuzzy({order[k]}, df, ratio)]
      combined == merge_and_sort_dataframes(<<zero_df>> \o fuzzy_frames)
      boosted == apply_token_boosts(combined, q_norm)
  IN sort_dataframes(boosted, ties)

\* the numeric branch, for a first token of ASCII digits
NumericBranch(df, first_token, ties) ==
  LET numeric_token == StripZeros(first_token)
      mask == [i \in 1..Len(df.rows) |->
                 IF Len(numeric_token) > 2
                 THEN \/ ContainsNoCase(df.rows[i].code, numeric_token)
                      \/ ContainsNoCase(df.rows[i].name, numeric_token)
                      \/ ContainsNoCase(df.rows[i].barcode, numeric_token)
                 ELSE ContainsNoCase(df.rows[i].name, numeric_token)]
      result_df == SelectRows(df.rows, mask)
  IN \* try: numeric_token = str(int(first_token)) except ValueError: return empty
     IF IntFails(first_token) \/ result_df = <<>> THEN EmptyScored(df)
     ELSE sort_dataframes([columns |-> df.columns \cup {"Score"},
                           rows |-> SetScore(result_df, 120)], ties)

search_dataframe(df, raw_query, table, order, ratio, ties) ==
  LET q_norm == QNorm(raw_query, table)
      tokens == Split(q_norm)
  IN IF df.rows = <<>> THEN EmptyScored(df)
     ELSE IF q_norm = <<>> \/ tokens = <<>> THEN EmptyScored(df)
     ELSE IF ~IsDigit(tokens[1]) THEN TextBranch(df, q_norm, tokens, order, ratio, ties)
     ELSE NumericBranch(df, tokens[1], ties)

----------------------------------------------------------------------------
(* The handlers of app/api/router.py. A response is the exception that     *)
(* left the handler ("none" when it returned) and the rows it presents.    *)

Returned(rows) == [exc |-> "none", rows |-> rows]
Raised(exc) == [exc |-> exc, rows |-> <<>>]

\* df.head(n)
HeadRows(rows, n) == SubSeq(rows, 1, Min(n, Len(rows)))

\* search.strip().split(' ')
RequestTokens(search) == SplitOn(Strip(search), 32, <<>>)

\* the queries the handlers hand to search_with_fuzzy, as Optional[str]
EndpointQueries(search_query) ==
  << {search_query},
     {convert_layout(search_query)},
     transliterate({search_query}),
     transliterate({convert_layout(search_query)}) >>

\* zero_df, first_df, second_df, third_df, fourth_df
EndpointFrames(search_query, df, ratio) ==
  <<simple_search(search_query, df)>>
  \o [k \in 1..4 |-> search_with_fuzzy(EndpointQueries(search_query)[k], df, ratio)]

\* pre_result_df[pre_result_df['name'].astype(str).str.contains(token, case=False)]
NameContains(rows, token) ==
  SelectRows(rows, [j \in 1..Len(rows) |-> ContainsNoCase(rows[j].name, token)])

\* fifth_df['Score'] = fifth_df['Score'] + 20
AddScore(rows, n) == [i \in 1..Len(rows) |-> [rows[i] EXCEPT !.Score = @ + n]]

\* try: ... except: pass -- without a second token (IndexError) or a "name"
\* column (KeyError) fifth_df stays pd.DataFrame()
FifthFrame(pre_result_df, tokens) ==
  IF Len(tokens) < 2 \/ "name" \notin pre_result_df.columns
  THEN EmptyFrame({})
  ELSE [columns |-> pre_result_df.columns,
        rows |-> AddScore(NameContains(pre_result_df.rows, tokens[2]), 20)]

\* pre_result_df, fifth_df and result_df of the text branch
EndpointAggregate(frames, tokens, ties) ==
  sort_dataframes(
    merge_and_sort_dataframes(
      frames \o <<FifthFrame(sort_dataframes(merge_and_sort_dataframes(frames), ties), tokens)>>),
    ties)

\* the text branch of both handlers: df is the frame searched
EndpointText(search, df, ratio, ties) ==
  EndpointAggregate(EndpointFrames(RequestTokens(search)[1], df, ratio),
                    RequestTokens(search), ties)

\* the two numeric branches of both handlers: df is the frame searched
EndpointNumeric(search_query, df) ==
  LET stripped == StripZeros(search_query)
      mask == [i \in 1..Len(df.rows) |->
                 IF Len(search_query) > 2
                 THEN \/ ContainsNoCase(df.rows[i].code, stripped)
                      \/ ContainsNoCase(df.rows[i].name, stripped)
                      \/ ContainsNoCase(df.rows[i].barcode, stripped)
                 ELSE ContainsNoCase(df.rows[i].name, stripped)]
  IN [columns |-> df.columns \cup {"Score"},
      rows |-> SetScore(SelectRows(df.rows, mask), 99)]

\* GET /search; search is an Optional[str]
search_endpoint(df, search, ratio, ties) ==
  IF search = {} \/ search = {<<>>} THEN [exc |-> "none", rows |-> <<>>]
  ELSE LET s == CHOOSE t \in search : TRUE
           search_query == RequestTokens(s)[1]
           result_df == IF ~IsDigit(search_query)
                        THEN EndpointText(s, df, ratio, ties)
                        ELSE EndpointNumeric(search_query, df)
       IN \* search_query = str(int(search_query)), outside any try
          IF IsDigit(search_query) /\ IntFails(search_query) THEN Raised("ValueError")
          \* result_df[['code', 'name', 'barcode', 'Score']].head(300)
          ELSE IF {"code", "name", "barcode", "Score"} \subseteq result_df.columns
          THEN Returned(HeadRows(result_df.rows, 300))
          ELSE Raised("KeyError")

\* df[df['producerid'].isin(producer_ids)]
FilterProducers(df, producer_ids) ==
  [columns |-> df.columns,
   rows |-> SelectRows(df.rows,
                       [i \in 1..Len(df.rows) |-> df.rows[i].producerid \in producer_ids])]

\* GET /query; q is an Optional[str], producerids an optional set of ids
query_endpoint(df, q, producerids, ratio, ties) ==
  IF q = {} THEN Raised("HTTPException")
  ELSE LET s == CHOOSE t \in q : TRUE
           search_query == RequestTokens(s)[1]
           df_filtered == IF producerids = {} THEN df
                          ELSE FilterProducers(df, CHOOSE ids \in producerids : TRUE)
           result_df == IF ~IsDigit(search_query)
                        THEN EndpointText(s, df_filtered, ratio, ties)
                        ELSE EndpointNumeric(search_query, df)
       IN \* search_query = str(int(search_query)), outside any try
          IF IsDigit(search_query) /\ IntFails(search_query) THEN Raised("ValueError")
          \* [item['id'] for item in result_df.head(96).to_dict(orient='records')]
          ELSE IF result_df.rows # <<>> /\ "id" \notin result_df.columns
          THEN Raised("KeyError")
          ELSE Returned(HeadRows(result_df.rows, 96))

----------------------------------------------------------------------------
(* The state of each part of the program when a specification does not     *)
(* exercise it, and what the actions of each part leave alone.             *)

Threads == 1..NThreads

\* A synonyms file that does not exist.
NoSource == [exists |-> FALSE, mtime |-> 0, content |-> [kind |-> "none", items |-> <<>>]]

NoReturn == [exc |-> "pending", value |-> EmptyDict]

TextIdle ==
  /\ text = <<>>
  /\ fn = "idle"
  /\ out1 = <<>>
  /\ out2 = <<>>

\* The module as imported: _synonyms_cache = {}, _synonyms_mtime = None (the
\* optional marker is the set of at most one st_mtime), no call in progress.
SynInit ==
  /\ source = NoSource
  /\ clock = 1
  /\ synonyms_cache = EmptyDict
  /\ synonyms_mtime = {}
  /\ pc = [t \in Threads |-> "idle"]
  /\ mtime = [t \in Threads |-> 0]
  /\ synonyms = [t \in Threads |-> EmptyDict]
  /\ found = [t \in Threads |-> "none"]
  /\ entry = [t \in Threads |-> [cache |-> EmptyDict, mtime |-> {}]]
  /\ ret = [t \in Threads |-> NoReturn]
  /\ overlapped = FALSE

NoRequest == [op |-> "none", query |-> {}, producerids |-> {}]

SearchIdle ==
  /\ catalog = EmptyFrame(CatalogColumns)
  /\ candidates = <<>>
  /\ request = NoRequest
  /\ sort_ties = Stable
  /\ fuzz_ratio = <<>>
  /\ variants = {}
  /\ phase = "idle"
  /\ returned = Returned(<<>>)
  /\ returned2 = Returned(<<>>)

TextFrame == UNCHANGED <<synVars, searchVars>>
SynFrame == UNCHANGED <<textVars, searchVars>>
SearchFrame == UNCHANGED <<textVars, synVars>>

----------------------------------------------------------------------------
(* Specification SpecText: normalize_query and convert_layout applied once *)
(* and twice to every short string over an alphabet that holds a letter, a *)
(* space, a punctuation mark the normaliser removes, the period it keeps,  *)
(* a Latin-layout punctuation key, and two Cyrillic letters: zhe, whose    *)
(* key is ";" on the Latin layout, and ef, whose key is "a".               *)

TextAlphabet == {32, 33, 46, 59, 97, 1078, 1092}

TextInit ==
  /\ text \in StringsUpTo(TextAlphabet, MaxTextLen)
  /\ fn = "none"
  /\ out1 = <<>>
  /\ out2 = <<>>

NormalizeOnce ==
  /\ fn = "none"
  /\ out1' = normalize_query(text)
  /\ fn' = "normalize"
  /\ UNCHANGED <<text, out2>>
  /\ TextFrame

NormalizeTwice ==
  /\ fn = "normalize"
  /\ out2' = normalize_query(out1)
  /\ fn' = "normalize_normalize"
  /\ UNCHANGED <<text, out1>>
  /\ TextFrame

ConvertOnce ==
  /\ fn = "none"
  /\ out1' = convert_layout(text)
  /\ fn' = "convert"
  /\ UNCHANGED <<text, out2>>
  /\ TextFrame

ConvertTwice ==
  /\ fn = "convert"
  /\ out2' = convert_layout(out1)
  /\ fn' = "convert_convert"
  /\ UNCHANGED <<text, out1>>
  /\ TextFrame

TextNext == NormalizeOnce \/ NormalizeTwice \/ ConvertOnce \/ ConvertTwice

InitText == TextInit /\ SynInit /\ SearchIdle

SpecText == InitText /\ [][TextNext]_vars

----------------------------------------------------------------------------
(* C3: normalize_query is idempotent: normalising an already normalised    *)
(* query gives the same string, for every input.                           *)
C3_NormalizeIdempotent ==
  fn = "normalize_normalize" => out2 = out1

InLayout(c, table) == \E i \in 1..Len(table) : table[i] = c

\* only Cyrillic letters of the layout table
PureCyrillic(s) == \A i \in 1..Len(s) : InLayout(s[i], russian_layout)

\* only Latin letters and punctuation keys of the layout table
PureLatin(s) == \A i \in 1..Len(s) : InLayout(s[i], english_layout)

(* C4: convert_layout is an involution on script-pure input: converting a  *)
(* string of Cyrillic layout letters, or of Latin layout keys, twice gives *)
(* the string back.                                                        *)
C4_LayoutInvolution ==
  (fn = "convert_convert" /\ (PureCyrillic(text) \/ PureLatin(text))) => out2 = text

----------------------------------------------------------------------------
(* _load_synonyms, statement by statement, run by the threads of the       *)
(* server while the synonyms file is written and removed.                  *)

JsonStr(s) == [type |-> "str", s |-> s, items |-> <<>>]
JsonList(items) == [type |-> "list", s |-> <<>>, items |-> items]
JsonNumber == [type |-> "number", s |-> <<>>, items |-> <<>>]

\* {"m": ["sx", "u v"]}
JsonMatrix ==
  [kind |-> "object",
   items |-> << [key |-> <<109>>, value |-> JsonList(<< <<115, 120>>, <<117, 32, 118>> >>)] >>]

\* {" M ": " S ", "k": 5, "": "x", "n": [" ", "T"]}
JsonMixed ==
  [kind |-> "object",
   items |-> << [key |-> <<32, 77, 32>>, value |-> JsonStr(<<32, 83, 32>>)],
                [key |-> <<107>>, value |-> JsonNumber],
                [key |-> <<>>, value |-> JsonStr(<<120>>)],
                [key |-> <<110>>, value |-> JsonList(<< <<32>>, <<84>> >>)] >>]

\* ["m", "s"]: valid JSON that is not an object
JsonArray == [kind |-> "array", items |-> <<>>]

\* {"m": : a file json.load rejects
JsonInvalid == [kind |-> "invalid", items |-> <<>>]

\* a file open() cannot read (no permission)
Unreadable == [kind |-> "unreadable", items |-> <<>>]

SourceContents == {JsonMatrix, JsonMixed, JsonArray, JsonInvalid, Unreadable}

\* A write of the file: its st_mtime changes.
WriteSource ==
  /\ clock <= MaxWrites
  /\ \E c \in SourceContents :
       source' = [exists |-> TRUE, mtime |-> clock, content |-> c]
  /\ clock' = clock + 1
  /\ UNCHANGED <<synonyms_cache, synonyms_mtime, pc, mtime, synonyms, found, entry,
                 ret, overlapped>>
  /\ SynFrame

RemoveSource ==
  /\ source.exists
  /\ source' = NoSource
  /\ UNCHANGED <<clock, synonyms_cache, synonyms_mtime, pc, mtime, synonyms, found,
                 entry, ret, overlapped>>
  /\ SynFrame

\* A thread enters _load_synonyms.
Call(t) ==
  /\ pc[t] \in {"idle", "done"}
  /\ pc' = [pc EXCEPT ![t] = "is_file"]
  /\ entry' = [entry EXCEPT ![t] = [cache |-> synonyms_cache, mtime |-> synonyms_mtime]]
  /\ found' = [found EXCEPT ![t] = "none"]
  /\ ret' = [ret EXCEPT ![t] = NoReturn]
  /\ overlapped' = (overlapped \/ \E u \in Threads \ {t} : pc[u] \notin {"idle", "done"})
  /\ UNCHANGED <<source, clock, synonyms_cache, synonyms_mtime, mtime, synonyms>>
  /\ SynFrame

\* if not path.is_file():
IsFile(t) ==
  /\ pc[t] = "is_file"
  /\ IF source.exists
     THEN /\ pc' = [pc EXCEPT ![t] = "stat"]
          /\ UNCHANGED found
     ELSE /\ pc' = [pc EXCEPT ![t] = "clear_cache"]
          /\ found' = [found EXCEPT ![t] = "absent"]
  /\ UNCHANGED <<source, clock, synonyms_cache, synonyms_mtime, mtime, synonyms,
                 entry, ret, overlapped>>
  /\ SynFrame

\* _synonyms_cache = {}
ClearCache(t) ==
  /\ pc[t] = "clear_cache"
  /\ synonyms_cache' = EmptyDict
  /\ pc' = [pc EXCEPT ![t] = "clear_mtime"]
  /\ UNCHANGED <<source, clock, synonyms_mtime, mtime, synonyms, found, entry, ret,
                 overlapped>>
  /\ SynFrame

\* _synonyms_mtime = None
ClearMtime(t) ==
  /\ pc[t] = "clear_mtime"
  /\ synonyms_mtime' = {}
  /\ pc' = [pc EXCEPT ![t] = "return"]
  /\ UNCHANGED <<source, clock, synonyms_cache, mtime, synonyms, found, entry, ret,
                 overlapped>>
  /\ SynFrame

\* try: mtime = path.stat().st_mtime / except Exception: return _synonyms_cache
Stat(t) ==
  /\ pc[t] = "stat"
  /\ IF source.exists
     THEN /\ mtime' = [mtime EXCEPT ![t] = source.mtime]
          /\ pc' = [pc EXCEPT ![t] = "check"]
          /\ UNCHANGED found
     ELSE /\ pc' = [pc EXCEPT ![t] = "return"]
          /\ found' = [found EXCEPT ![t] = "unreadable"]
          /\ UNCHANGED mtime
  /\ UNCHANGED <<source, clock, synonyms_cache, synonyms_mtime, synonyms, entry, ret,
                 overlapped>>
  /\ SynFrame

\* if _synonyms_mtime is not None and mtime == _synonyms_mtime: return _synonyms_cache
CheckMtime(t) ==
  /\ pc[t] = "check"
  /\ IF synonyms_mtime = {mtime[t]}
     THEN /\ pc' = [pc EXCEPT ![t] = "return"]
          /\ found' = [found EXCEPT ![t] = "unchanged"]
     ELSE /\ pc' = [pc EXCEPT ![t] = "load"]
          /\ UNCHANGED found
  /\ UNCHANGED <<source, clock, synonyms_cache, synonyms_mtime, mtime, synonyms,
                 entry, ret, overlapped>>
  /\ SynFrame

\* What open() and json.load() do with the file as it is now.
LoadOutcome ==
  IF ~source.exists \/ source.content.kind = "unreadable" THEN "unreadable"
  ELSE IF source.content.kind = "invalid" THEN "malformed"
  ELSE IF source.content.kind = "object" THEN "loaded"
  ELSE "not_mapping"

\* try: raw = json.load(f) / except Exception: return _synonyms_cache, then
\* the loop over raw.items(), which is outside the try: a raw that is not a
\* dict has no items() and the AttributeError leaves the function.
Load(t) ==
  /\ pc[t] = "load"
  /\ found' = [found EXCEPT ![t] = LoadOutcome]
  /\ IF LoadOutcome = "loaded"
     THEN /\ synonyms' = [synonyms EXCEPT ![t] = BuildSynonyms(source.content.items, EmptyDict)]
          /\ pc' = [pc EXCEPT ![t] = "store_cache"]
          /\ UNCHANGED ret
     ELSE IF LoadOutcome = "not_mapping"
     THEN /\ ret' = [ret EXCEPT ![t] = [exc |-> "AttributeError", value |-> EmptyDict]]
          /\ pc' = [pc EXCEPT ![t] = "done"]
          /\ UNCHANGED synonyms
     ELSE /\ pc' = [pc EXCEPT ![t] = "return"]
          /\ UNCHANGED <<synonyms, ret>>
  /\ UNCHANGED <<source, clock, synonyms_cache, synonyms_mtime, mtime, entry, overlapped>>
  /\ SynFrame

\* _synonyms_cache = synonyms
StoreCache(t) ==
  /\ pc[t] = "store_cache"
  /\ synonyms_cache' = synonyms[t]
  /\ pc' = [pc EXCEPT ![t] = "store_mtime"]
  /\ UNCHANGED <<source, clock, synonyms_mtime, mtime, synonyms, found, entry, ret,
                 overlapped>>
  /\ SynFrame

\* _synonyms_mtime = mtime
StoreMtime(t) ==
  /\ pc[t] = "store_mtime"
  /\ synonyms_mtime' = {mtime[t]}
  /\ pc' = [pc EXCEPT ![t] = "return"]
  /\ UNCHANGED <<source, clock, synonyms_cache, mtime, synonyms, found, entry, ret,
                 overlapped>>
  /\ SynFrame

\* return _synonyms_cache
Return(t) ==
  /\ pc[t] = "return"
  /\ ret' = [ret EXCEPT ![t] = [exc |-> "none", value |-> synonyms_cache]]
  /\ pc' = [pc EXCEPT ![t] = "done"]
  /\ UNCHANGED <<source, clock, synonyms_cache, synonyms_mtime, mtime, synonyms,
                 found, entry, overlapped>>
  /\ SynFrame

load_synonyms(t) ==
  \/ Call(t) \/ IsFile(t) \/ ClearCache(t) \/ ClearMtime(t) \/ Stat(t)
  \/ CheckMtime(t) \/ Load(t) \/ StoreCache(t) \/ StoreMtime(t) \/ Return(t)

\* One caller at a time, the file changing between and during the calls.
SynSeqNext == WriteSource \/ RemoveSource \/ load_synonyms(1)

InitSyn == SynInit /\ TextIdle /\ SearchIdle

SpecSynSeq == InitSyn /\ [][SynSeqNext]_vars

\* Calls from several threads.
SynNext == WriteSource \/ RemoveSource \/ \E t \in Threads : load_synonyms(t)

SpecSyn == InitSyn /\ [][SynNext]_vars

(* C5: a call of _load_synonyms that finds the source unreadable or         *)
(* malformed (invalid JSON, or JSON that is not a mapping) raises nothing,  *)
(* returns the table held before the call and leaves the cached table and   *)
(* marker as they were; a call that finds the marker unchanged returns the  *)
(* cached table without replacing it; a call that finds the source absent   *)
(* sets the table to empty and the marker to none.                          *)
C5_LoadFailureKeepsCache ==
  \A t \in Threads :
    pc[t] = "done" =>
      /\ found[t] \in {"unreadable", "malformed", "not_mapping"} =>
           /\ ret[t] = [exc |-> "none", value |-> entry[t].cache]
           /\ synonyms_cache = entry[t].cache
           /\ synonyms_mtime = entry[t].mtime
      /\ found[t] = "unchanged" =>
           /\ ret[t] = [exc |-> "none", value |-> entry[t].cache]
           /\ synonyms_cache = entry[t].cache
      /\ found[t] = "absent" =>
           /\ synonyms_cache = EmptyDict
           /\ synonyms_mtime = {}

(* C9: when _load_synonyms calls have run concurrently while the source     *)
(* changed and all of them have finished, the cached table is the one built *)
(* from the source version the cached marker names: with the marker equal   *)
(* to the file's current st_mtime (so that the next call returns the cache  *)
(* as it is), the cache is the table of the file's current content.         *)
C9_CacheMatchesMarker ==
  (/\ overlapped
   /\ \A t \in Threads : pc[t] \in {"idle", "done"}
   /\ source.exists
   /\ synonyms_mtime = {source.mtime})
  => /\ source.content.kind = "object"
     /\ synonyms_cache = BuildSynonyms(source.content.items, EmptyDict)

----------------------------------------------------------------------------
(* Aggregation: merge_and_sort_dataframes followed by sort_dataframes, on  *)
(* every pair of candidate frames of at most MaxRows rows in all, under    *)
(* every order the sort may give rows of equal Score.                      *)

MaxRows == 3
MaxIds == 2
AggScores == {50, 100}

\* the candidate row of entry id with a Score
AggRow(id, score) ==
  [id |-> id, name |-> <<>>, code |-> <<>>, barcode |-> <<>>, producerid |-> 0, Score |-> score]

AggRows == {AggRow(id, score) : id \in 1..MaxIds, score \in AggScores}

RowsUpTo(n) == UNION {[1..k -> AggRows] : k \in 0..n}

Permutations_(n) == {f \in [1..n -> 1..n] : \A i, j \in 1..n : f[i] = f[j] => i = j}

ScoredFrame(rows) == [columns |-> CatalogColumns \cup {"Score"}, rows |-> rows]

AggInit ==
  /\ \E flat \in RowsUpTo(MaxRows) : \E cut \in 0..Len(flat) :
       candidates = <<ScoredFrame(SubSeq(flat, 1, cut)),
                      ScoredFrame(SubSeq(flat, cut + 1, Len(flat)))>>
  /\ \E rank \in Permutations_(Len(ConcatRows(candidates))) : sort_ties = Ranked(rank)
  /\ catalog = EmptyFrame(CatalogColumns)
  /\ request = [op |-> "aggregate", query |-> {}, producerids |-> {}]
  /\ fuzz_ratio = <<>>
  /\ variants = {}
  /\ phase = "called"
  /\ returned = Returned(<<>>)
  /\ returned2 = Returned(<<>>)

\* sort_dataframes(merge_and_sort_dataframes(*candidates))
Aggregate ==
  /\ request.op = "aggregate"
  /\ phase = "called"
  /\ returned' = Returned(sort_dataframes(merge_and_sort_dataframes(candidates), sort_ties).rows)
  /\ phase' = "done"
  /\ UNCHANGED <<catalog, candidates, request, sort_ties, fuzz_ratio, variants, returned2>>
  /\ SearchFrame

InitAgg == AggInit /\ TextIdle /\ SynInit

SpecAgg == InitAgg /\ [][Aggregate]_vars

Ids(rows) == {rows[i].id : i \in 1..Len(rows)}

UniqueIds(rows) == \A i, j \in 1..Len(rows) : rows[i].id = rows[j].id => i = j

NonIncreasing(rows) == \A i \in 1..(Len(rows) - 1) : rows[i].Score >= rows[i + 1].Score

\* C2 as the specification states it: of the candidates of one id the first
\* in concatenation order is kept, whatever its Score, and the survivors are
\* ordered by falling Score, equal Scores in concatenation order.
C2_FirstOccurrenceKept ==
  (request.op = "aggregate" /\ phase = "done")
    => returned.rows = sort_values(drop_duplicates(ConcatRows(candidates)),
                                   TieRank(Stable, Len(drop_duplicates(ConcatRows(candidates)))))

\* C2, amended: aggregation keeps one row for each id among the candidates,
\* that row carries the highest Score any candidate of the id has, and the
\* rows are in order of falling Score.
C2_HighestScoreKept ==
  (request.op = "aggregate" /\ phase = "done")
    => LET all == ConcatRows(candidates)
       IN /\ Ids(returned.rows) = Ids(all)
          /\ UniqueIds(returned.rows)
          /\ NonIncreasing(returned.rows)
          /\ \A i \in 1..Len(returned.rows) : \A j \in 1..Len(all) :
               all[j].id = returned.rows[i].id => all[j].Score <= returned.rows[i].Score
          /\ \A i \in 1..Len(returned.rows) : \E j \in 1..Len(all) : all[j] = returned.rows[i]

\* an id whose later candidate has the higher Score has been aggregated
C2_Witness ==
  /\ request.op = "aggregate"
  /\ phase = "done"
  /\ \E i, j \in 1..Len(ConcatRows(candidates)) :
       /\ i < j
       /\ ConcatRows(candidates)[i].id = ConcatRows(candidates)[j].id
       /\ ConcatRows(candidates)[i].Score < ConcatRows(candidates)[j].Score
  /\ Len(returned.rows) = 2

----------------------------------------------------------------------------
(* Searching. A catalog of at most two entries is searched through         *)
(* search_dataframe, GET /search and GET /query. search_dataframe is taken *)
(* in two steps, the building of the variants (lines 506-557) and the      *)
(* matching and aggregation that follow.                                   *)

\* two of the scores RapidFuzz can give a pair, one on each side of the cutoffs
FuzzyScores == {30, 60}

\* [id, name, code, barcode, producerid]: (1, "sx 6", "123", "4607", 1)
\* and (2, "xs 6", "77", "1230", 2)
Entry1 ==
  [id |-> 1, name |-> <<115, 120, 32, 54>>, code |-> <<49, 50, 51>>,
   barcode |-> <<52, 54, 48, 55>>, producerid |-> 1, Score |-> 0]

Entry2 ==
  [id |-> 2, name |-> <<120, 115, 32, 54>>, code |-> <<55, 55>>,
   barcode |-> <<49, 50, 51, 48>>, producerid |-> 2, Score |-> 0]

Catalogs ==
  {[columns |-> CatalogColumns, rows |-> rows] : rows \in {<<>>, <<Entry1>>, <<Entry1, Entry2>>}}

\* "", " ", "s", "sx", "sx 6", "m 6", "k", "6", "123", "007", "\u00b2"
SearchQueries ==
  { <<>>, <<32>>, <<115>>, <<115, 120>>, <<115, 120, 32, 54>>, <<109, 32, 54>>,
    <<107>>, <<54>>, <<49, 50, 51>>, <<48, 48, 55>>, <<178>> }

\* the synonyms file as written at time 1 and loaded by _load_synonyms
LoadedSource(content) ==
  /\ source = [exists |-> TRUE, mtime |-> 1, content |-> content]
  /\ clock = 2
  /\ synonyms_cache = BuildSynonyms(content.items, EmptyDict)
  /\ synonyms_mtime = {1}
  /\ pc = [t \in Threads |-> "idle"]
  /\ mtime = [t \in Threads |-> 0]
  /\ synonyms = [t \in Threads |-> EmptyDict]
  /\ found = [t \in Threads |-> "none"]
  /\ entry = [t \in Threads |-> [cache |-> EmptyDict, mtime |-> {}]]
  /\ ret = [t \in Threads |-> NoReturn]
  /\ overlapped = FALSE

Requests ==
  {[op |-> "search_dataframe", query |-> {q}, producerids |-> {}] : q \in SearchQueries}
  \cup {[op |-> "/search", query |-> o, producerids |-> {}] :
          o \in {{}} \cup {{q} : q \in SearchQueries}}
  \cup {[op |-> "/query", query |-> o, producerids |-> p] :
          o \in {{}} \cup {{q} : q \in SearchQueries}, p \in {{}, {{1}}}}

SearchInit ==
  /\ catalog \in Catalogs
  /\ candidates = <<>>
  /\ request \in Requests
  /\ sort_ties \in {Stable, Reversed}
  /\ SynInit \/ LoadedSource(JsonMatrix)
  /\ fuzz_ratio = <<>>
  /\ variants = {}
  /\ phase = "called"
  /\ returned = Returned(<<>>)
  /\ returned2 = Returned(<<>>)

RawQuery == CHOOSE q \in request.query : TRUE

\* search_dataframe, lines 506-557: q_norm, tokens and the variants
SearchVariants ==
  /\ request.op = "search_dataframe"
  /\ phase = "called"
  /\ variants' = IF catalog.rows = <<>> THEN {}
                 ELSE VariantsOf(RawQuery, synonyms_cache)
  /\ phase' = "variants"
  /\ UNCHANGED <<catalog, candidates, request, sort_ties, fuzz_ratio, returned, returned2>>
  /\ SearchFrame

\* search_dataframe, lines 559-603 and the early returns: the result
SearchMatch ==
  /\ request.op = "search_dataframe"
  /\ phase = "variants"
  /\ \E order \in Orders(variants) :
       \E r \in [FuzzyKeys(variants, catalog) -> FuzzyScores] :
         /\ fuzz_ratio' = r
         /\ returned' = Returned(search_dataframe(catalog, RawQuery, synonyms_cache,
                                                  order, r, sort_ties).rows)
  /\ phase' = "done"
  /\ UNCHANGED <<catalog, candidates, request, sort_ties, variants, returned2>>
  /\ SearchFrame

\* a second evaluation of the same call on the same snapshot and table; the
\* set of variants is the same and is iterated in an order of its own
SearchAgain ==
  /\ request.op = "search_dataframe"
  /\ phase = "done"
  /\ \E order \in Orders(variants) :
       returned2' = Returned(search_dataframe(catalog, RawQuery, synonyms_cache,
                                              order, fuzz_ratio, sort_ties).rows)
  /\ phase' = "again"
  /\ UNCHANGED <<catalog, candidates, request, sort_ties, fuzz_ratio, variants, returned>>
  /\ SearchFrame

\* the frame the text branch of a handler searches
Searched ==
  IF request.op = "/query" /\ request.producerids # {}
  THEN FilterProducers(catalog, CHOOSE ids \in request.producerids : TRUE)
  ELSE catalog

\* the strings a handler hands to search_with_fuzzy
HandlerStrings ==
  IF request.query = {} THEN {}
  ELSE UNION {EndpointQueries(RequestTokens(RawQuery)[1])[k] : k \in 1..4}

\* GET /search
SearchEndpoint ==
  /\ request.op = "/search"
  /\ phase = "called"
  /\ \E r \in [FuzzyKeys(HandlerStrings, Searched) -> FuzzyScores] :
       /\ fuzz_ratio' = r
       /\ returned' = search_endpoint(catalog, request.query, r, sort_ties)
  /\ phase' = "done"
  /\ UNCHANGED <<catalog, candidates, request, sort_ties, variants, returned2>>
  /\ SearchFrame

\* GET /query
QueryEndpoint ==
  /\ request.op = "/query"
  /\ phase = "called"
  /\ \E r \in [FuzzyKeys(HandlerStrings, Searched) -> FuzzyScores] :
       /\ fuzz_ratio' = r
       /\ returned' = query_endpoint(catalog, request.query, request.producerids, r, sort_ties)
  /\ phase' = "done"
  /\ UNCHANGED <<catalog, candidates, request, sort_ties, variants, returned2>>
  /\ SearchFrame

SearchNext == SearchVariants \/ SearchMatch \/ SearchAgain \/ SearchEndpoint \/ QueryEndpoint

InitSearch == SearchInit /\ TextIdle

SpecSearch == InitSearch /\ [][SearchNext]_vars

\* the call returned rows
Done == phase \in {"done", "again"} /\ returned.exc = "none"

\* C1: the rows search_dataframe, GET /search and GET /query return for a
\* catalog of unique ids hold each id at most once and their Score never
\* rises from one row to the next.
C1_UniqueIdsFallingScore ==
  (request.op \in {"search_dataframe", "/search", "/query"} /\ Done)
    => UniqueIds(returned.rows) /\ NonIncreasing(returned.rows)

\* search_dataframe has returned both entries of the catalog, one above the other
C1_Witness ==
  /\ request.op = "search_dataframe"
  /\ Done
  /\ Len(returned.rows) = 2
  /\ returned.rows[1].Score > returned.rows[2].Score
  /\ Cardinality(variants) >= 2

\* the query is empty or blank
BlankQuery == request.query # {} /\ Strip(RawQuery) = <<>>

\* the strict and all the fuzzy candidate sets of a text query are empty
TextNoMatch ==
  /\ request.query # {}
  /\ Strip(RawQuery) # <<>>
  /\ IF request.op = "search_dataframe"
     THEN /\ IsTextQuery(RawQuery, synonyms_cache)
          /\ simple_search(Split(QNorm(RawQuery, synonyms_cache))[1], catalog).rows = <<>>
          /\ \A v \in variants : search_with_fuzzy({v}, catalog, fuzz_ratio).rows = <<>>
     ELSE /\ ~IsDigit(RequestTokens(RawQuery)[1])
          /\ simple_search(RequestTokens(RawQuery)[1], Searched).rows = <<>>
          /\ \A k \in 1..4 :
               search_with_fuzzy(EndpointQueries(RequestTokens(RawQuery)[1])[k],
                                 Searched, fuzz_ratio).rows = <<>>

\* C6: a query that is empty, blank or matches no entry of the catalog
\* yields an empty result and no exception, from search_dataframe, GET
\* /search and GET /query.
C6_NoMatchIsEmptyResult ==
  (/\ request.op \in {"search_dataframe", "/search", "/query"}
   /\ phase \in {"done", "again"}
   /\ catalog.rows # <<>>
   /\ BlankQuery \/ TextNoMatch)
    => returned = Returned(<<>>)

\* C7: with a producer filter, every id GET /query returns is the id of a
\* catalog entry whose producer is in the filter.
C7_ProducerFilterHolds ==
  (request.op = "/query" /\ request.producerids # {} /\ Done)
    => \A i \in 1..Len(returned.rows) :
         \E j \in 1..Len(catalog.rows) :
           /\ catalog.rows[j].id = returned.rows[i].id
           /\ catalog.rows[j].producerid \in (CHOOSE ids \in request.producerids : TRUE)

\* C8: two evaluations of search_dataframe for one catalog, one synonym
\* table and one query return the same ids with the same Scores in the
\* same order, in whatever order the variants are iterated.
C8_SearchDeterministic ==
  (request.op = "search_dataframe" /\ phase = "again") => returned2 = returned

----------------------------------------------------------------------------
(* The variants of a query: the first step of search_dataframe, for        *)
(* queries of one or two tokens and synonym tables whose keys have two     *)
(* alternatives.                                                           *)

\* "m", "M", "sx", "x", "6"
VariantTokens == {<<109>>, <<77>>, <<115, 120>>, <<120>>, <<54>>}

\* a token, or two tokens with " " or "! " between them
VariantQueries ==
  VariantTokens
  \cup {a \o sep \o b : a \in VariantTokens, b \in VariantTokens, sep \in {<<32>>, <<33, 32>>}}

\* {"m": ["m", "sx"]}
JsonSelf ==
  [kind |-> "object",
   items |-> << [key |-> <<109>>, value |-> JsonList(<< <<109>>, <<115, 120>> >>)] >>]

\* {"x": "m"}
JsonSingle ==
  [kind |-> "object", items |-> << [key |-> <<120>>, value |-> JsonStr(<<109>>)] >>]

\* {"m": " "}
JsonBlank ==
  [kind |-> "object", items |-> << [key |-> <<109>>, value |-> JsonStr(<<32>>)] >>]

\* {"m": ["", " "]}
JsonBlankList ==
  [kind |-> "object",
   items |-> << [key |-> <<109>>, value |-> JsonList(<< <<>>, <<32>> >>)] >>]

\* {"x": "m", "m": ""}
JsonChain ==
  [kind |-> "object",
   items |-> << [key |-> <<120>>, value |-> JsonStr(<<109>>)],
                [key |-> <<109>>, value |-> JsonStr(<<>>)] >>]

VariantSources == {JsonMatrix, JsonSelf, JsonSingle, JsonBlank, JsonBlankList, JsonChain}

VariantInit ==
  /\ catalog = [columns |-> CatalogColumns, rows |-> <<Entry1>>]
  /\ candidates = <<>>
  /\ \E q \in VariantQueries :
       request = [op |-> "search_dataframe", query |-> {q}, producerids |-> {}]
  /\ sort_ties = Stable
  /\ SynInit \/ \E content \in VariantSources : LoadedSource(content)
  /\ fuzz_ratio = <<>>
  /\ variants = {}
  /\ phase = "called"
  /\ returned = Returned(<<>>)
  /\ returned2 = Returned(<<>>)

InitVariants == VariantInit /\ TextIdle

SpecVariants == InitVariants /\ [][SearchVariants]_vars

\* the tokens of the caller's query as normalize_query leaves it
CallerTokens == Split(normalize_query(RawQuery))

\* C10: in the text branch, for every token of the caller's normalized
\* query that is a key of the synonym table, the variants hold, for each
\* alternative of the key and not only the first, the query with the token
\* replaced by the alternative, and the alternative alone.
C10_EveryAlternativeIsVariant ==
  (/\ request.op = "search_dataframe"
   /\ phase = "variants"
   /\ IsTextQuery(RawQuery, synonyms_cache))
    => \A i \in 1..Len(CallerTokens) :
         HasSynonyms(synonyms_cache, Lower(CallerTokens[i]))
           => \A j \in 1..Len(synonyms_cache[Lower(CallerTokens[i])]) :
                /\ AltQuery(CallerTokens, i, synonyms_cache[Lower(CallerTokens[i])][j]) \in variants
                /\ synonyms_cache[Lower(CallerTokens[i])][j] \in variants

\* C11: whatever table _load_synonyms has built from the source, no variant
\* handed to the matcher is empty or blank, and none begins or ends with a
\* blank. (The variants are a set, so no string occurs twice.)
C11_NoBlankVariant ==
  (request.op = "search_dataframe" /\ phase = "variants")
    => \A v \in variants : v # <<>> /\ Strip(v) = v

----------------------------------------------------------------------------
(* Boosts: apply_token_boosts on a frame of one or two candidates and a    *)
(* normalized query.                                                       *)

\* "sx 6", "c 10.23", "xs"
BoostNames == { <<115, 120, 32, 54>>, <<99, 32, 49, 48, 46, 50, 51>>, <<120, 115>> }

BoostScores == {5, 100}

\* "", "sx", "SX", "sx sx", "sx 6", "sx zz", "a sx", "6", "zz 7", "10.23", "10"
BoostQueries ==
  { <<>>, <<115, 120>>, <<83, 88>>, <<115, 120, 32, 115, 120>>, <<115, 120, 32, 54>>,
    <<115, 120, 32, 122, 122>>, <<97, 32, 115, 120>>, <<54>>, <<122, 122, 32, 55>>,
    <<49, 48, 46, 50, 51>>, <<49, 48>> }

BoostRow(id, name, score) ==
  [id |-> id, name |-> name, code |-> <<>>, barcode |-> <<>>, producerid |-> 0, Score |-> score]

\* the frames of one or two candidates, ids in row order
BoostFrames ==
  {ScoredFrame(<<>>)}
  \cup {ScoredFrame(<<BoostRow(1, n, sc)>>) : n \in BoostNames, sc \in BoostScores}
  \cup {ScoredFrame(<<BoostRow(1, n1, s1), BoostRow(2, n2, s2)>>) :
          n1 \in BoostNames, s1 \in BoostScores, n2 \in BoostNames, s2 \in BoostScores}

BoostInit ==
  /\ \E df \in BoostFrames : candidates = <<df>>
  /\ \E q \in BoostQueries :
       request = [op |-> "apply_token_boosts", query |-> {q}, producerids |-> {}]
  /\ catalog = EmptyFrame(CatalogColumns)
  /\ sort_ties = Stable
  /\ fuzz_ratio = <<>>
  /\ variants = {}
  /\ phase = "called"
  /\ returned = Returned(<<>>)
  /\ returned2 = Returned(<<>>)

\* boosted = apply_token_boosts(combined, q_norm)
ApplyTokenBoosts ==
  /\ request.op = "apply_token_boosts"
  /\ phase = "called"
  /\ returned' = Returned(apply_token_boosts(candidates[1], RawQuery).rows)
  /\ phase' = "done"
  /\ UNCHANGED <<catalog, candidates, request, sort_ties, fuzz_ratio, variants, returned2>>
  /\ SearchFrame

InitBoost == BoostInit /\ TextIdle /\ SynInit

SpecBoost == InitBoost /\ [][ApplyTokenBoosts]_vars

\* the distinct tokens of a query that are words (not digits, not stop
\* words), and those that are digits
DistinctWords(q) ==
  {t \in {FindWordRuns(Lower(q), <<>>)[i] : i \in 1..Len(FindWordRuns(Lower(q), <<>>))} :
     ~IsDigit(t) /\ t \notin STOP_WORDS}

DistinctDigits(q) ==
  {t \in {FindWordRuns(Lower(q), <<>>)[i] : i \in 1..Len(FindWordRuns(Lower(q), <<>>))} :
     IsDigit(t)}

FoundIn(name, tokens) == {t \in tokens : ContainsWord(Lower(name), t)}

\* the change of Score the boost rule gives a name for a query
RuleBonus(name, q) ==
  5 * Cardinality(FoundIn(name, DistinctWords(q)))
  + 20 * Cardinality(FoundIn(name, DistinctDigits(q)))
  + (IF Strip(q) # <<>> /\ Contains(Lower(name), Lower(Strip(q))) THEN 15 ELSE 0)
  - (IF Cardinality(DistinctWords(q)) >= 2
     THEN 3 * Cardinality(DistinctWords(q) \ FoundIn(name, DistinctWords(q))) ELSE 0)
  - 10 * Cardinality(DistinctDigits(q) \ FoundIn(name, DistinctDigits(q)))

\* C12: apply_token_boosts keeps every candidate and every field but the
\* Score, and changes the Score by 5 for each distinct word of the query
\* found in the name, 20 for each distinct digit token found, 15 when the
\* whole query occurs in the name, minus 3 for each missing word of a query
\* of two words or more and minus 10 for each missing digit token.
C12_BoostRule ==
  (request.op = "apply_token_boosts" /\ phase = "done")
    => /\ Len(returned.rows) = Len(candidates[1].rows)
       /\ \A i \in 1..Len(returned.rows) :
            returned.rows[i] =
              [candidates[1].rows[i] EXCEPT
                 !.Score = @ + RuleBonus(candidates[1].rows[i].name, RawQuery)]

----------------------------------------------------------------------------
(* The numeric branches, in SpecSearch                                     *)

\* the first token as the function or handler at hand takes it
FirstToken ==
  IF request.op = "search_dataframe"
  THEN Split(QNorm(RawQuery, synonyms_cache))[1]
  ELSE RequestTokens(RawQuery)[1]

\* the call took a numeric branch
NumericQuery ==
  /\ request.op \in {"search_dataframe", "/search", "/query"}
  /\ request.query # {}
  /\ catalog.rows # <<>>
  /\ IF request.op = "search_dataframe"
     THEN Split(QNorm(RawQuery, synonyms_cache)) # <<>>
     ELSE TRUE
  /\ IsDigit(FirstToken)

\* the fields the stripped token selects: code, name and barcode for more
\* than two digits, the name alone otherwise
StrippedMatch(row, token) ==
  IF Len(StripZeros(token)) > 2
  THEN \/ ContainsNoCase(row.code, StripZeros(token))
       \/ ContainsNoCase(row.name, StripZeros(token))
       \/ ContainsNoCase(row.barcode, StripZeros(token))
  ELSE ContainsNoCase(row.name, StripZeros(token))

\* C13: in the numeric branch of search_dataframe, GET /search and GET
\* /query the returned entries are those that hold the first token, stripped
\* of leading zeros, in code, name or barcode when the stripped token is
\* longer than two digits and in the name when it is not; all of them carry
\* one Score.
C13_StrippedTokenDecidesFields ==
  (NumericQuery /\ Done)
    => /\ \A i \in 1..Len(returned.rows) : StrippedMatch(returned.rows[i], FirstToken)
       /\ \A j \in 1..Len(Searched.rows) :
            StrippedMatch(Searched.rows[j], FirstToken)
              => \E i \in 1..Len(returned.rows) : returned.rows[i].id = Searched.rows[j].id
       /\ \A i, j \in 1..Len(returned.rows) : returned.rows[i].Score = returned.rows[j].Score

\* the first token passes str.isdigit() and int() does not accept it
UnparsedNumber ==
  /\ request.op \in {"search_dataframe", "/search", "/query"}
  /\ request.query # {}
  /\ IF request.op = "search_dataframe"
     THEN Split(QNorm(RawQuery, synonyms_cache)) # <<>>
     ELSE TRUE
  /\ IsDigit(FirstToken)
  /\ IntFails(FirstToken)

\* C14: when the first token is all digits for str.isdigit() and is no
\* integer for int(), search_dataframe, GET /search and GET /query return
\* (an empty result, or that of the text branch) and raise nothing.
C14_UnparsedNumberNeverRaises ==
  (UnparsedNumber /\ phase \in {"done", "again"}) => returned.exc = "none"

============================================================================
